---- MODULE Spec2Model ----
(***************************************************************************)
(* Process supervisor of the ccp command line (src/ccp/cli.py): the PID    *)
(* record .ccp.pid, the log file .ccp.log, the process table the liveness  *)
(* probe and the stop signal act on, and the commands start, stop and      *)
(* status.  Each command is one action that models the whole handler.      *)
(***************************************************************************)
EXTENDS Integers, Sequences, FiniteSets, TLC

\* ------------------------------------------------------------------ bounds
\* Process ids range over 1..MaxPid.
MaxPid == 2
\* The log file holds at most MaxLog entries written by servers.
MaxLog == 1
\* At most MaxOther processes unrelated to the supervisor hold a pid at a time.
MaxOther == 1
\* The pieces an alias is put together from.
MaxParts == 2
\* The digits of a settings value.
MaxDigits == 9

Pids == 1 .. MaxPid

\* ------------------------------------------------------------ PID record
\* Content of PID_FILE (cli.py:17).  "none": the file does not exist;
\* "garbage": it exists and int(f.read().strip()) raises ValueError (empty or
\* non-numeric text); "int": it parses to the integer val.
NoFile == [kind |-> "none", val |-> 0]
Garbage == [kind |-> "garbage", val |-> 0]
IntRec(v) == [kind |-> "int", val |-> v]

\* Integers a record can hold: -1 (every process), 0 (the caller's process
\* group) and the process ids.
RecInts == (-1) .. MaxPid
Records == {NoFile, Garbage} \cup {IntRec(v) : v \in RecInts}

\* --------------------------------------------------------- process table
\* proc[p]: "free" (no such process), "server" (a server this supervisor
\* launched, alive), "dying" (such a server after a signal that makes it shut
\* down, not yet exited),
\* "other" (an unrelated process of the same user), "foreign" (an unrelated
\* process of another user, which the caller may not signal), "fg" (a server
\* a foreground start runs as its child).
ProcStates == {"free", "server", "dying", "other", "foreign", "fg"}
Alive(st) == st \in {"server", "dying"}

VARIABLES
  pidFile,   \* content of .ccp.pid
  logFile,   \* [exists, data]: .ccp.log, data the sequence of lines written
  venv,      \* whether the .venv directory exists
  proc,      \* the process table
  lastOp,    \* the last command run and what it did
  phase,     \* "none", "started" (a background start launched and recorded
             \* a server), "stopped" (a stop was called after that)
  fn,        \* a pure function of the program, its arguments and its result
  call       \* per caller: the command it runs concurrently with the other
             \* caller's, the statement it has reached and its local variables

vars == <<pidFile, logFile, venv, proc, lastOp, phase, fn, call>>

\* No pure function is being applied.
NoFn == [name |-> "none"]

\* Two shells in the same working directory.
Callers == {"A", "B"}

\* A caller that runs no command: op is its last command and out what that
\* reported. In a running command pid is the local variable pid of
\* is_server_really_running and stop, spawned process.pid of start, detached
\* whether the record the caller holds open for writing was unlinked.
Idle(op, out) == [op |-> op, pc |-> "idle", pid |-> 0, spawned |-> 0,
                  detached |-> FALSE, out |-> out]

NoLog == [exists |-> FALSE, data |-> <<>>]

\* Whether o reports a start in the background without --auto.
StartBg(o) == o.op = "start" /\ ~o.foreground /\ ~o.auto

\* What a command reports: op, its flags, exit code, outcome, whether the
\* environment setup ran (0/1), the pid it spawned (0: none), the target its
\* stop signal reached, the exception the liveness probe caught before it
\* cleaned the record up ("none": it cleaned nothing), and whether opening the
\* log discarded lines; with them whether a background start directly follows
\* another one, and a bit that flips on every command.
Op(op, fg, auto, exit, out, setup, spawned, sig, caught, truncated) ==
  [op |-> op, foreground |-> fg, auto |-> auto, exit |-> exit, out |-> out,
   setup |-> setup, spawned |-> spawned, sig |-> sig, caught |-> caught,
   truncated |-> truncated,
   prevBg |-> op = "start" /\ ~fg /\ ~auto /\ StartBg(lastOp),
   seq |-> 1 - lastOp.seq]

\* No command has run.
NoOp == [op |-> "none", foreground |-> FALSE, auto |-> FALSE, exit |-> 0,
         out |-> "none", setup |-> 0, spawned |-> 0, sig |-> "none",
         caught |-> "none", truncated |-> FALSE, prevBg |-> FALSE, seq |-> 0]

Init ==
  /\ pidFile \in Records
  /\ logFile = NoLog
  /\ venv \in BOOLEAN
  /\ proc = [p \in Pids |-> "free"]
  /\ lastOp = NoOp
  /\ phase = "none"
  /\ fn = NoFn
  /\ call = [c \in Callers |-> Idle("none", "none")]

\* --------------------------------------------------------- liveness probe
\* Mutant of os_kill_probe: the test for a missing process is inverted.
os_kill_probe_inverted(v, pr) ==
  IF v <= 0 THEN "ok"
  ELSE IF pr[v] = "free" THEN "ok"
  ELSE IF pr[v] = "foreign" THEN "EPERM"
  ELSE "ESRCH"

\* os.kill(pid, 0) (cli.py:56): "ok", "ESRCH" (ProcessLookupError) or "EPERM"
\* (PermissionError).  pid 0 probes the caller's own process group and pid -1
\* every process the caller may signal: both succeed.
os_kill_probe(v, pr) ==
  IF v <= 0 THEN "ok"
  ELSE IF pr[v] = "free" THEN "ESRCH"
  ELSE IF pr[v] = "foreign" THEN "EPERM"
  ELSE "ok"

\* Mutant of stale_cleanup: the record is left in place.
stale_cleanup_skip(pf) == pf

\* PID_FILE.unlink() in the except clause of the probe (cli.py:61).
stale_cleanup(pf) == NoFile

\* Mutant of is_server_really_running: the except clause does not list
\* ProcessLookupError.
is_server_really_running_unlisted(pf, pr) ==
  IF pf.kind = "none" THEN [ret |-> "false", file |-> pf, caught |-> "none"]
  ELSE IF pf.kind = "garbage"
    THEN [ret |-> "false", file |-> stale_cleanup(pf), caught |-> "ValueError"]
  ELSE IF os_kill_probe(pf.val, pr) = "ok"
    THEN [ret |-> "true", file |-> pf, caught |-> "none"]
  ELSE [ret |-> "raise", file |-> pf, caught |-> "none"]

\* is_server_really_running (cli.py:44-62): ret is "true", "false" or "raise"
\* (an exception the except clause does not list), file the record afterwards,
\* caught the exception the except clause caught.
is_server_really_running(pf, pr) ==
  IF pf.kind = "none" THEN [ret |-> "false", file |-> pf, caught |-> "none"]
  ELSE IF pf.kind = "garbage"
    THEN [ret |-> "false", file |-> stale_cleanup(pf), caught |-> "ValueError"]
  ELSE LET k == os_kill_probe(pf.val, pr) IN
       IF k = "ok" THEN [ret |-> "true", file |-> pf, caught |-> "none"]
       ELSE IF k = "ESRCH"
         THEN [ret |-> "false", file |-> stale_cleanup(pf),
               caught |-> "ProcessLookupError"]
       ELSE [ret |-> "raise", file |-> pf, caught |-> "none"]

\* ------------------------------------------------------------------ start
\* Mutant of flags_conflict: the check is missing.
flags_conflict_off(foreground, auto) == FALSE

\* cli.py:165: the two flags exclude each other.
flags_conflict(foreground, auto) == foreground /\ auto

\* Mutant of open_log: the file is opened for append.
open_log_append(lg) == [exists |-> TRUE, data |-> lg.data]

\* open(LOG_FILE, "wb") (cli.py:230): the file is created or truncated.
open_log(lg) == [exists |-> TRUE, data |-> <<>>]

\* Outcomes of the steps of start that depend on the environment.
EnvOutcomes == {"ok", "venv_fail", "pip_fail"}
LaunchOutcomes == {"ok", "log_fail", "spawn_fail", "pid_open_fail", "pid_write_fail"}
\* subprocess.run of the foreground server raises at once ("failed") or runs
\* the server ("launched") until it exits or the user interrupts it.
FgOutcomes == {"launched", "failed"}
FgEnds == {"exited", "interrupted"}
\* A client is interrupted by a signal sent to the command alone
\* ("interrupted") or by the terminal's interrupt key ("interrupted_tty"),
\* which signals the whole foreground process group.
ClientOutcomes ==
  {"notfound", "exited", "error", "spawn_error", "interrupted", "interrupted_tty"}

\* The client launch of --auto (cli.py:249-275): a missing executable exits 1;
\* every outcome of the client itself returns normally.
client_exit(client) == IF client = "notfound" THEN 1 ELSE 0
client_out(client) ==
  CASE client = "notfound" -> "ClientNotFound"
    [] client = "exited" -> "ClientExited"
    [] client = "error" -> "ClientError"
    [] client = "spawn_error" -> "ClientLaunchFailed"
    [] client \in {"interrupted", "interrupted_tty"} -> "ClientInterrupted"

\* Mutant of launch_client: a client that does not end normally takes the
\* record with it.
launch_client_cleans(s, client) ==
  [s EXCEPT !.exit = client_exit(client), !.out = client_out(client),
            !.file = IF client = "exited" THEN s.file ELSE NoFile]

\* The client launch applied to the state s the call has reached
\* (cli.py:249-275): it sets the exit code and the report.  Popen
\* (cli.py:231-233) starts the server in the command's own process group, so
\* an interrupt from the terminal reaches a server this call spawned as well,
\* and the server shuts down.
launch_client(s, client) ==
  [s EXCEPT !.exit = client_exit(client), !.out = client_out(client),
            !.proc = IF client = "interrupted_tty" /\ s.spawned # 0
                       THEN [s.proc EXCEPT ![s.spawned] = "dying"]
                       ELSE s.proc]

\* The reports of a call that reached the client launch.
ClientOuts == {client_out(c) : c \in ClientOutcomes}

\* The record after the background launch (cli.py:235-236): open(PID_FILE, "w")
\* creates the file empty, write stores str(process.pid).
write_pid(launch, p) ==
  CASE launch = "ok" -> IntRec(p)
    [] launch = "pid_open_fail" -> NoFile
    [] launch = "pid_write_fail" -> Garbage

\* Mutant of run_foreground: the foreground server is recorded like a
\* background one.
run_foreground_recorded(s, p, fgo) ==
  IF fgo = "failed"
    THEN [s EXCEPT !.exit = 1, !.out = "ForegroundFailed"]
    ELSE [s EXCEPT !.proc = [s.proc EXCEPT ![p] = "fg"], !.child = p,
                   !.file = IntRec(p), !.out = "ForegroundRunning"]

\* The foreground launch applied to the state s the call has reached
\* (cli.py:213-224), up to the point where subprocess.run blocks: the server
\* runs as the child p of the command, and PID_FILE is not touched.
run_foreground(s, p, fgo) ==
  IF fgo = "failed"
    THEN [s EXCEPT !.exit = 1, !.out = "ForegroundFailed"]
    ELSE [s EXCEPT !.proc = [s.proc EXCEPT ![p] = "fg"], !.child = p,
                   !.out = "ForegroundRunning"]

\* start (cli.py:143-275) as a function of the state and of the outcomes of its
\* external steps: the state afterwards and what the call reports.
start(foreground, auto, env, launch, p, fgo, client) ==
  LET r == is_server_really_running(pidFile, proc)
      same == [file |-> pidFile, log |-> logFile, venv |-> venv, proc |-> proc,
               exit |-> 0, out |-> "none", setup |-> 0, spawned |-> 0,
               child |-> 0, caught |-> "none", truncated |-> FALSE]
      probed == [same EXCEPT !.file = r.file, !.caught = r.caught]
      opened == open_log(logFile)
      lost == opened.data # logFile.data
  IN
  IF flags_conflict(foreground, auto)
    THEN [same EXCEPT !.exit = 1, !.out = "InvalidArguments"]
  ELSE IF r.ret = "raise"
    THEN [same EXCEPT !.exit = 1, !.out = "Traceback"]
  ELSE IF r.ret = "true"
    THEN IF ~auto
           THEN [same EXCEPT !.out = "AlreadyRunning"]
           ELSE launch_client(same, client)
  ELSE IF ~venv /\ env = "venv_fail"
    THEN [probed EXCEPT !.exit = 1, !.out = "EnvironmentSetupFailed", !.setup = 1]
  ELSE IF env = "pip_fail"
    THEN [probed EXCEPT !.venv = TRUE, !.exit = 1,
                        !.out = "EnvironmentSetupFailed", !.setup = 1]
  ELSE IF foreground
    THEN run_foreground([probed EXCEPT !.venv = TRUE, !.setup = 1], p, fgo)
  ELSE IF launch = "log_fail"
    THEN [probed EXCEPT !.venv = TRUE, !.setup = 1, !.exit = 1, !.out = "LaunchFailed"]
  ELSE IF launch = "spawn_fail"
    THEN [probed EXCEPT !.venv = TRUE, !.setup = 1, !.log = opened,
                        !.truncated = lost, !.exit = 1, !.out = "LaunchFailed"]
  ELSE
    LET launched == [probed EXCEPT !.venv = TRUE, !.setup = 1,
                                   !.log = opened, !.truncated = lost,
                                   !.proc = [proc EXCEPT ![p] = "server"],
                                   !.spawned = p,
                                   !.file = write_pid(launch, p)]
    IN IF launch # "ok"
         THEN [launched EXCEPT !.exit = 1, !.out = "LaunchFailed"]
       ELSE IF ~auto
         THEN [launched EXCEPT !.out = "Started"]
       ELSE launch_client(launched, client)

\* Popen and subprocess.run give the new server a pid that no process holds.
\* A foreground start that launched its server stays blocked: FgEnd is its
\* return.
Start(foreground, auto, env, launch, p, fgo, client) ==
  \E s \in {start(foreground, auto, env, launch, p, fgo, client)} :
  /\ (s.spawned # 0 \/ s.child # 0) => proc[p] = "free"
  /\ pidFile' = s.file
  /\ logFile' = s.log
  /\ venv' = s.venv
  /\ proc' = s.proc
  /\ lastOp' = Op("start", foreground, auto, s.exit, s.out, s.setup, s.spawned,
                  "none", s.caught, s.truncated)
  /\ phase' = IF s.spawned # 0 /\ s.file = IntRec(p) THEN "started" ELSE "none"
  /\ UNCHANGED <<fn, call>>

\* ------------------------------------------------------------------- stop
\* Mutant of os_kill_term: the signal goes to every server alive, as a signal
\* to a process group would.
os_kill_term_all(v, pr) ==
  [res |-> "ok",
   proc |-> [q \in Pids |-> IF Alive(pr[q]) THEN "dying" ELSE pr[q]],
   sig |-> "all"]

\* os.kill(pid, signal.SIGTERM) (cli.py:297): res is "ok", "ESRCH", "EPERM" or
\* "self"; proc the process table afterwards; sig what the signal reached.
\* pid 0 addresses the caller's own process group, the caller included: the
\* default action of SIGTERM ends the caller inside the call.  pid -1
\* addresses every process the caller may signal, the caller excepted.
\* A server that is signalled shuts down in its own time ("dying", or "fg"
\* until the foreground start returns); an unrelated process of the same user
\* is terminated.
os_kill_term(v, pr) ==
  IF v = 0 THEN [res |-> "self", proc |-> pr, sig |-> "group"]
  ELSE IF v < 0
    THEN [res |-> "ok",
          proc |-> [q \in Pids |-> IF Alive(pr[q]) THEN "dying"
                                   ELSE IF pr[q] = "other" THEN "free"
                                   ELSE pr[q]],
          sig |-> "all"]
  ELSE IF pr[v] = "free" THEN [res |-> "ESRCH", proc |-> pr, sig |-> "none"]
  ELSE IF pr[v] = "foreign" THEN [res |-> "EPERM", proc |-> pr, sig |-> "none"]
  ELSE IF Alive(pr[v])
    THEN [res |-> "ok", proc |-> [pr EXCEPT ![v] = "dying"], sig |-> "server"]
  ELSE IF pr[v] = "fg" THEN [res |-> "ok", proc |-> pr, sig |-> "foreground"]
  ELSE [res |-> "ok", proc |-> [pr EXCEPT ![v] = "free"], sig |-> "other"]

\* Mutant of stop_corrupt_cleanup: the corrupt record is left in place.
stop_corrupt_keep(pf) == pf

\* PID_FILE.unlink() in the except clause of the read (cli.py:293).
stop_corrupt_cleanup(pf) == NoFile

\* Mutant of stop_finally: the record is left in place.
stop_finally_keep(pf) == pf

\* PID_FILE.unlink() in the finally clause (cli.py:304-306).
stop_finally(pf) == NoFile

\* stop (cli.py:279-307): the state afterwards and what the call reports.
\* Exit code 143 stands for a caller ended by its own SIGTERM.
stop(pf, pr) ==
  IF pf.kind = "none"
    THEN [file |-> pf, proc |-> pr, exit |-> 1, out |-> "NotRunning", sig |-> "none"]
  ELSE IF pf.kind = "garbage"
    THEN [file |-> stop_corrupt_cleanup(pf), proc |-> pr, exit |-> 1,
          out |-> "CorruptState", sig |-> "none"]
  ELSE LET k == os_kill_term(pf.val, pr) IN
    CASE k.res = "ok" ->
           [file |-> stop_finally(pf), proc |-> k.proc, exit |-> 0,
            out |-> "Stopped", sig |-> k.sig]
      [] k.res = "ESRCH" ->
           [file |-> stop_finally(pf), proc |-> k.proc, exit |-> 0,
            out |-> "ProcessNotFound", sig |-> k.sig]
      [] k.res = "EPERM" ->
           [file |-> stop_finally(pf), proc |-> k.proc, exit |-> 1,
            out |-> "StopFailed", sig |-> k.sig]
      [] k.res = "self" ->
           [file |-> pf, proc |-> k.proc, exit |-> 143,
            out |-> "Terminated", sig |-> k.sig]

Stop ==
  \E s \in {stop(pidFile, proc)} :
  /\ pidFile' = s.file
  /\ proc' = s.proc
  /\ lastOp' = Op("stop", FALSE, FALSE, s.exit, s.out, 0, 0, s.sig, "none", FALSE)
  /\ phase' = IF phase = "none" THEN "none" ELSE "stopped"
  /\ UNCHANGED <<logFile, venv, fn, call>>

\* ----------------------------------------------------------------- status
\* The server part of status (cli.py:383-399).
status(pf, pr) ==
  LET r == is_server_really_running(pf, pr) IN
  [file |-> r.file, caught |-> r.caught,
   exit |-> IF r.ret = "raise" THEN 1 ELSE 0,
   out |-> CASE r.ret = "true" -> "Running"
             [] r.ret = "false" -> "Stopped"
             [] r.ret = "raise" -> "Traceback"]

Status ==
  \E s \in {status(pidFile, proc)} :
  /\ pidFile' = s.file
  /\ lastOp' = Op("status", FALSE, FALSE, s.exit, s.out, 0, 0, "none", s.caught, FALSE)
  /\ UNCHANGED <<logFile, venv, proc, phase, fn, call>>

\* The server of a foreground start exits, or the user interrupts it: the
\* blocked start returns (cli.py:218-224), normally in both cases.
FgEnd(p, how) ==
  /\ proc[p] = "fg"
  /\ proc' = [proc EXCEPT ![p] = "free"]
  /\ lastOp' = Op("start", TRUE, FALSE, 0,
                  IF how = "exited" THEN "ForegroundExited"
                                    ELSE "ForegroundInterrupted",
                  1, 0, "none", "none", FALSE)
  /\ UNCHANGED <<pidFile, logFile, venv, phase, fn, call>>

FgReturn == \E p \in Pids, how \in FgEnds : FgEnd(p, how)

\* ------------------------------------------------------------ environment
\* A server exits: on its own, or having been signalled.
ServerExit(p) ==
  /\ Alive(proc[p])
  /\ proc' = [proc EXCEPT ![p] = "free"]
  /\ UNCHANGED <<pidFile, logFile, venv, lastOp, phase, fn, call>>

\* The system gives a free pid to an unrelated process.
PidReuse(p, st) ==
  /\ proc[p] = "free"
  /\ Cardinality({q \in Pids : proc[q] \in {"other", "foreign"}}) < MaxOther
  /\ proc' = [proc EXCEPT ![p] = st]
  /\ UNCHANGED <<pidFile, logFile, venv, lastOp, phase, fn, call>>

\* An unrelated process exits.
OtherExit(p) ==
  /\ proc[p] \in {"other", "foreign"}
  /\ proc' = [proc EXCEPT ![p] = "free"]
  /\ UNCHANGED <<pidFile, logFile, venv, lastOp, phase, fn, call>>

\* A server writes to its stdout or stderr, redirected to the log file
\* (cli.py:231-233).
ServerWrites(p) ==
  /\ Alive(proc[p])
  /\ logFile.exists
  /\ Len(logFile.data) < MaxLog
  /\ logFile' = [logFile EXCEPT !.data = Append(@, "line")]
  /\ UNCHANGED <<pidFile, venv, proc, lastOp, phase, fn, call>>

\* A call of start with every combination of flags and of outcomes of its
\* external steps; an outcome is drawn only where the call can reach the step.
StartCall ==
  \E foreground \in BOOLEAN, auto \in BOOLEAN :
    \E env \in IF foreground /\ auto THEN {"ok"} ELSE EnvOutcomes :
      \E launch \in IF env = "ok" /\ ~foreground THEN LaunchOutcomes ELSE {"ok"} :
        \E fgo \in IF env = "ok" /\ foreground /\ ~auto THEN FgOutcomes ELSE {"failed"} :
          \E p \in IF env = "ok" /\ (foreground \/ launch \notin {"log_fail", "spawn_fail"})
                        /\ (~foreground \/ fgo = "launched")
                     THEN Pids ELSE {1} :
            \E client \in IF env = "ok" /\ auto /\ ~foreground /\ launch = "ok"
                            THEN ClientOutcomes ELSE {"notfound"} :
              Start(foreground, auto, env, launch, p, fgo, client)

Environment ==
  \E p \in Pids :
    \/ ServerExit(p)
    \/ PidReuse(p, "other")
    \/ PidReuse(p, "foreign")
    \/ OtherExit(p)
    \/ ServerWrites(p)

Next == StartCall \/ FgReturn \/ Stop \/ Status \/ Environment

Spec == Init /\ [][Next]_vars

TypeOK ==
  /\ pidFile \in Records
  /\ logFile.exists \in BOOLEAN /\ Len(logFile.data) <= MaxLog
  /\ venv \in BOOLEAN
  /\ proc \in [Pids -> ProcStates]
  /\ phase \in {"none", "started", "stopped"}

\* --------------------------------------------------------------- strings
\* A string is the sequence of its characters, each a one-character string.
\* The words of a settings key ("OPENAI_", "API_KEY", "BIG_MODEL") and the
\* fixed parts of a model name ("gemini", "openai", "gpt-4.1", ...) stand for
\* their characters as one element; they occur only where no length is taken.
UpperChars == <<"A", "E", "G", "H", "I", "K", "L", "N", "O", "S", "T", "U">>
LowerChars == <<"a", "e", "g", "h", "i", "k", "l", "n", "o", "s", "t", "u">>

lower_char(c) ==
  IF \E i \in 1..Len(UpperChars) : UpperChars[i] = c
    THEN LowerChars[CHOOSE i \in 1..Len(UpperChars) : UpperChars[i] = c]
    ELSE c

\* str.lower()
lower(s) == [i \in 1..Len(s) |-> lower_char(s[i])]

\* sub in s
Contains(sub, s) ==
  \E i \in 1..(Len(s) - Len(sub) + 1) : SubSeq(s, i, i + Len(sub) - 1) = sub

\* os.environ.get(name, default): an environment variable is the set of its
\* values, empty when it is not set.
environ_get(e, default) == IF e = {} THEN default ELSE CHOOSE v \in e : TRUE

\* ------------------------------------------------------- alias resolution
haiku == <<"h", "a", "i", "k", "u">>
sonnet == <<"s", "o", "n", "n", "e", "t">>
google == <<"g", "o", "o", "g", "l", "e">>
openai == <<"o", "p", "e", "n", "a", "i">>

\* mcp_server.py:27-29: the settings as the module reads them at import.
PREFERRED_PROVIDER(env) == lower(environ_get(env.PREFERRED_PROVIDER, openai))
BIG_MODEL(env) == environ_get(env.BIG_MODEL, <<"gpt-4.1">>)
SMALL_MODEL(env) == environ_get(env.SMALL_MODEL, <<"gpt-4.1-mini">>)

\* Mutant of get_mapped_model: the big-model marker is tested first.
get_mapped_model_big_first(model_alias, env) ==
  IF Contains(sonnet, lower(model_alias))
    THEN IF PREFERRED_PROVIDER(env) = google
           THEN <<"gemini", "/">> \o BIG_MODEL(env)
           ELSE <<"openai", "/">> \o BIG_MODEL(env)
  ELSE IF Contains(haiku, lower(model_alias))
    THEN IF PREFERRED_PROVIDER(env) = google
           THEN <<"gemini", "/">> \o SMALL_MODEL(env)
           ELSE <<"openai", "/">> \o SMALL_MODEL(env)
  ELSE model_alias

\* get_mapped_model (mcp_server.py:31-38).
get_mapped_model(model_alias, env) ==
  IF Contains(haiku, lower(model_alias))
    THEN IF PREFERRED_PROVIDER(env) = google
           THEN <<"gemini", "/">> \o SMALL_MODEL(env)
           ELSE <<"openai", "/">> \o SMALL_MODEL(env)
  ELSE IF Contains(sonnet, lower(model_alias))
    THEN IF PREFERRED_PROVIDER(env) = google
           THEN <<"gemini", "/">> \o BIG_MODEL(env)
           ELSE <<"openai", "/">> \o BIG_MODEL(env)
  ELSE model_alias

\* The aliases: up to MaxParts pieces put together, so that a marker occurs
\* whole, in either case, split over two pieces, or not at all.
AliasParts ==
  {haiku, <<"H", "a", "i", "k", "u">>, <<"H", "A", "I", "K", "U">>,
   sonnet, <<"S", "O", "N", "N", "E", "T">>,
   <<"h", "a", "i">>, <<"k", "u">>, <<"s", "o", "n">>, <<"N", "E", "T">>,
   <<"-">>, <<"o", "p", "u", "s">>}

RECURSIVE AliasesOf(_)
AliasesOf(n) ==
  IF n = 0 THEN {<<>>}
  ELSE AliasesOf(n - 1) \cup {a \o b : a \in AliasesOf(n - 1), b \in AliasParts}

Aliases == AliasesOf(MaxParts)

\* The values of PREFERRED_PROVIDER, BIG_MODEL and SMALL_MODEL in the
\* environment.
Providers ==
  {{}, {google}, {<<"G", "o", "o", "g", "l", "e">>},
   {<<"G", "O", "O", "G", "L", "E">>}, {openai}, {<<"g", "e", "m", "i", "n", "i">>},
   {<<>>}}
ModelNames == {{}, {<<"my-model">>}}
Envs == [PREFERRED_PROVIDER : Providers, BIG_MODEL : ModelNames, SMALL_MODEL : ModelNames]

\* ------------------------------------------------------- status: settings
\* Characters of a settings line other than a key's words.
DigitChars == <<"0", "1", "2", "3", "4", "5", "6", "7", "8", "9">>
Whitespace == {" ", "\n"}

\* str.strip()
RECURSIVE lstrip(_)
lstrip(s) == IF s # <<>> /\ Head(s) \in Whitespace THEN lstrip(Tail(s)) ELSE s
RECURSIVE rstrip(_)
rstrip(s) ==
  IF s # <<>> /\ s[Len(s)] \in Whitespace THEN rstrip(SubSeq(s, 1, Len(s) - 1)) ELSE s
strip(s) == rstrip(lstrip(s))

\* s[:n] and s[-n:]
py_head(s, n) == SubSeq(s, 1, IF Len(s) < n THEN Len(s) ELSE n)
py_tail(s, n) == SubSeq(s, IF Len(s) < n THEN 1 ELSE Len(s) - n + 1, Len(s))

\* The position of the first "=" of s, 0 when it has none.
find_eq(s) ==
  IF \E i \in 1..Len(s) : s[i] = "="
    THEN CHOOSE i \in 1..Len(s) : s[i] = "=" /\ \A j \in 1..(i - 1) : s[j] # "="
    ELSE 0

\* line.split('=', 1) (cli.py:420) where the line has a "=".
split_key(s) == SubSeq(s, 1, find_eq(s) - 1)
split_value(s) == SubSeq(s, find_eq(s) + 1, Len(s))

\* cli.py:421-422
MaskOver == 8
MaskKeep == 4

\* Console.print of rich renders console markup: "[" followed by a letter,
\* "#", "@" or "/" opens a tag that runs to the next "]" with no "[" between.
\* A tag is not printed; a closing tag ("[/...]") with no tag open raises
\* MarkupError.
TagStart == {"b", "#", "@", "/"}
TagEnd(t, i) ==
  IF i + 1 <= Len(t) /\ t[i] = "[" /\ t[i + 1] \in TagStart
       /\ \E j \in (i + 2)..Len(t) : t[j] = "]" /\ \A k \in (i + 2)..(j - 1) : t[k] \notin {"[", "]"}
    THEN CHOOSE j \in (i + 2)..Len(t) :
           t[j] = "]" /\ \A k \in (i + 2)..(j - 1) : t[k] \notin {"[", "]"}
    ELSE 0

RECURSIVE render(_, _, _)
render(t, i, open) ==
  IF i > Len(t) THEN [raised |-> FALSE, text |-> <<>>]
  ELSE IF TagEnd(t, i) # 0
    THEN IF t[i + 1] = "/" /\ open = 0
           THEN [raised |-> TRUE, text |-> <<>>]
           ELSE render(t, TagEnd(t, i) + 1, IF t[i + 1] = "/" THEN open - 1 ELSE open + 1)
  ELSE LET r == render(t, i + 1, open)
       IN [r EXCEPT !.text = IF r.raised THEN <<>> ELSE <<t[i]>> \o @]

\* console.print(text) (cli.py:423, 425, 427): what reaches the terminal.
console_print(text) ==
  LET r == render(text, 1, 0) IN [shown |-> ~r.raised, raised |-> r.raised, text |-> r.text]

\* cli.py:421-425: the text printed for an entry.
mask(key, value) ==
  IF Contains(<<"API_KEY">>, key) /\ Len(value) > MaskOver
    THEN key \o <<"=", "'">> \o py_head(value, MaskKeep) \o <<".", ".", ".">>
             \o py_tail(value, MaskKeep) \o <<"'">>
    ELSE key \o <<"=">> \o value

\* The body of the loop over the lines of .env (cli.py:414-427).
display_line(raw) ==
  LET line == strip(raw) IN
  IF line = <<>> \/ Head(line) = "#"
    THEN [shown |-> FALSE, raised |-> FALSE, text |-> <<>>]
  ELSE IF find_eq(line) = 0 THEN console_print(line)
  ELSE console_print(mask(split_key(line), split_value(line)))

\* The lines of .env: an optional indent, a key, "=" or nothing, a value of
\* up to MaxDigits digits after an optional head, and the line end.
Keys == {<<"OPENAI_", "API_KEY">>, <<"API_KEY">>, <<"BIG_MODEL">>, <<"#", "API_KEY">>, <<>>}
ValueHeads == {<<>>, <<"[", "/", "]">>, <<"[", "b", "]">>, <<"=">>, <<" ">>}
Digits(n) == [i \in 1..n |-> DigitChars[((i - 1) % Len(DigitChars)) + 1]]
Lines ==
  {lead \o key \o sep \o head \o Digits(n) \o trail :
     lead \in {<<>>, <<" ">>}, key \in Keys, sep \in {<<>>, <<"=">>},
     head \in ValueHeads, n \in 0..MaxDigits, trail \in {<<>>, <<"\n">>}}

\* -------------------------------------------- pure functions as a machine
InitFn ==
  /\ pidFile = NoFile
  /\ logFile = NoLog
  /\ venv = FALSE
  /\ proc = [p \in Pids |-> "free"]
  /\ lastOp = NoOp
  /\ phase = "none"
  /\ call = [c \in Callers |-> Idle("none", "none")]
  /\ \/ fn \in [name : {"get_mapped_model"}, alias : Aliases, env : Envs,
                done : {FALSE}, out : {<<>>}]
     \/ fn \in [name : {"display_line"}, line : Lines, done : {FALSE},
                out : {[shown |-> FALSE, raised |-> FALSE, text |-> <<>>]}]

GetMappedModel ==
  /\ fn.name = "get_mapped_model" /\ ~fn.done
  /\ fn' = [fn EXCEPT !.done = TRUE, !.out = get_mapped_model(fn.alias, fn.env)]
  /\ UNCHANGED <<pidFile, logFile, venv, proc, lastOp, phase, call>>

DisplayLine ==
  /\ fn.name = "display_line" /\ ~fn.done
  /\ fn' = [fn EXCEPT !.done = TRUE, !.out = display_line(fn.line)]
  /\ UNCHANGED <<pidFile, logFile, venv, proc, lastOp, phase, call>>

NextFn == GetMappedModel \/ DisplayLine

SpecFn == InitFn /\ [][NextFn]_vars

\* ------------------------------------------------- two concurrent callers
\* Two commands run at once in the same working directory. Each statement
\* that touches the record or a process is one step; the steps of the two
\* callers interleave in any order.

\* A command starts: stop begins at its existence check (cli.py:284), start
\* and status at the one of is_server_really_running (cli.py:49).
Begin(c, op) ==
  /\ call[c].pc = "idle"
  /\ call' = [call EXCEPT ![c] =
                [op |-> op, pc |-> IF op = "stop" THEN "stop_exists" ELSE "probe_exists",
                 pid |-> 0, spawned |-> 0, detached |-> FALSE, out |-> "none"]]
  /\ UNCHANGED <<pidFile, logFile, venv, proc, lastOp, phase, fn>>

\* The command of caller c ends and reports out.
Finish(c, out) == call' = [call EXCEPT ![c] = Idle(call[c].op, out)]

\* Caller c has unlinked the record and goes on as r: a caller that holds
\* the record open for writing (cli.py:235-236) now writes to a file no name
\* leads to.
AfterUnlink(c, r) ==
  call' = [x \in Callers |->
             IF x = c THEN r
             ELSE IF call[x].pc = "write_pid" THEN [call[x] EXCEPT !.detached = TRUE]
             ELSE call[x]]

\* Where the caller goes when is_server_really_running returns ret: start
\* (cli.py:170-176, without --auto) and status (cli.py:391-399).
after_probe(r, ret) ==
  IF r.op = "start"
    THEN IF ret THEN Idle(r.op, "AlreadyRunning") ELSE [r EXCEPT !.pc = "spawn", !.pid = 0]
    ELSE IF ret THEN [r EXCEPT !.pc = "status_reopen", !.pid = 0] ELSE Idle(r.op, "Stopped")

\* cli.py:49-50
ProbeExists(c) ==
  /\ call[c].pc = "probe_exists"
  /\ call' = [call EXCEPT ![c] =
                IF pidFile.kind = "none" THEN after_probe(call[c], FALSE)
                ELSE [call[c] EXCEPT !.pc = "probe_read"]]
  /\ UNCHANGED <<pidFile, logFile, venv, proc, lastOp, phase, fn>>

\* cli.py:52-54: a missing or unparsable record raises into the except clause.
ProbeRead(c) ==
  /\ call[c].pc = "probe_read"
  /\ call' = [call EXCEPT ![c] =
                IF pidFile.kind = "int"
                  THEN [call[c] EXCEPT !.pc = "probe_kill", !.pid = pidFile.val]
                  ELSE [call[c] EXCEPT !.pc = "probe_unlink"]]
  /\ UNCHANGED <<pidFile, logFile, venv, proc, lastOp, phase, fn>>

\* cli.py:56-57
ProbeKill(c) ==
  /\ call[c].pc = "probe_kill"
  /\ \E k \in {os_kill_probe(call[c].pid, proc)} :
       call' = [call EXCEPT ![c] =
                  CASE k = "ok" -> after_probe(call[c], TRUE)
                    [] k = "ESRCH" -> [call[c] EXCEPT !.pc = "probe_unlink"]
                    [] k = "EPERM" -> Idle(call[c].op, "Traceback")]
  /\ UNCHANGED <<pidFile, logFile, venv, proc, lastOp, phase, fn>>

\* cli.py:58-62: PID_FILE.unlink() raises FileNotFoundError, inside the
\* except clause, when the record is gone.
ProbeUnlink(c) ==
  /\ call[c].pc = "probe_unlink"
  /\ IF pidFile.kind = "none"
       THEN Finish(c, "FileNotFoundError") /\ UNCHANGED pidFile
       ELSE pidFile' = stale_cleanup(pidFile)
            /\ AfterUnlink(c, after_probe(call[c], FALSE))
  /\ UNCHANGED <<logFile, venv, proc, lastOp, phase, fn>>

\* cli.py:178-233: the environment is set up, the log opened and the server
\* spawned; none of it touches the record.
Spawn(c, p) ==
  /\ call[c].pc = "spawn"
  /\ proc[p] = "free"
  /\ proc' = [proc EXCEPT ![p] = "server"]
  /\ logFile' = open_log(logFile)
  /\ venv' = TRUE
  /\ call' = [call EXCEPT ![c] = [call[c] EXCEPT !.pc = "open_pid", !.spawned = p]]
  /\ UNCHANGED <<pidFile, lastOp, phase, fn>>

\* open(PID_FILE, "w") (cli.py:235): the record is created, or emptied in
\* place.
OpenPid(c) ==
  /\ call[c].pc = "open_pid"
  /\ pidFile' = Garbage
  /\ call' = [call EXCEPT ![c] = [call[c] EXCEPT !.pc = "write_pid", !.detached = FALSE]]
  /\ UNCHANGED <<logFile, venv, proc, lastOp, phase, fn>>

\* f.write(str(process.pid)) and the close of the file (cli.py:236).
WritePid(c) ==
  /\ call[c].pc = "write_pid"
  /\ pidFile' = IF call[c].detached THEN pidFile ELSE write_pid("ok", call[c].spawned)
  /\ Finish(c, "Started")
  /\ UNCHANGED <<logFile, venv, proc, lastOp, phase, fn>>

\* cli.py:284-286
StopExists(c) ==
  /\ call[c].pc = "stop_exists"
  /\ call' = [call EXCEPT ![c] =
                IF pidFile.kind = "none" THEN Idle("stop", "NotRunning")
                ELSE [call[c] EXCEPT !.pc = "stop_read"]]
  /\ UNCHANGED <<pidFile, logFile, venv, proc, lastOp, phase, fn>>

\* cli.py:288-291
StopRead(c) ==
  /\ call[c].pc = "stop_read"
  /\ call' = [call EXCEPT ![c] =
                IF pidFile.kind = "int"
                  THEN [call[c] EXCEPT !.pc = "stop_kill", !.pid = pidFile.val]
                  ELSE [call[c] EXCEPT !.pc = "stop_corrupt_unlink"]]
  /\ UNCHANGED <<pidFile, logFile, venv, proc, lastOp, phase, fn>>

\* cli.py:291-294
StopCorruptUnlink(c) ==
  /\ call[c].pc = "stop_corrupt_unlink"
  /\ IF pidFile.kind = "none"
       THEN Finish(c, "FileNotFoundError") /\ UNCHANGED pidFile
       ELSE pidFile' = stop_corrupt_cleanup(pidFile)
            /\ AfterUnlink(c, Idle("stop", "CorruptState"))
  /\ UNCHANGED <<logFile, venv, proc, lastOp, phase, fn>>

\* cli.py:296-303: what the command will report is held in out until the
\* finally clause has run.
StopKill(c) ==
  /\ call[c].pc = "stop_kill"
  /\ \E k \in {os_kill_term(call[c].pid, proc)} :
       /\ proc' = k.proc
       /\ call' = [call EXCEPT ![c] =
                     CASE k.res = "ok" -> [call[c] EXCEPT !.pc = "stop_finally", !.out = "Stopped"]
                       [] k.res = "ESRCH" ->
                            [call[c] EXCEPT !.pc = "stop_finally", !.out = "ProcessNotFound"]
                       [] k.res = "EPERM" ->
                            [call[c] EXCEPT !.pc = "stop_finally", !.out = "StopFailed"]
                       [] k.res = "self" -> Idle("stop", "Terminated")]
  /\ UNCHANGED <<pidFile, logFile, venv, lastOp, phase, fn>>

\* cli.py:304-307
StopFinally(c) ==
  /\ call[c].pc = "stop_finally"
  /\ IF pidFile.kind = "none"
       THEN Finish(c, "FileNotFoundError") /\ UNCHANGED pidFile
       ELSE pidFile' = stop_finally(pidFile)
            /\ AfterUnlink(c, Idle("stop", call[c].out))
  /\ UNCHANGED <<logFile, venv, proc, lastOp, phase, fn>>

\* cli.py:392-394: status opens and parses the record a second time.
StatusReopen(c) ==
  /\ call[c].pc = "status_reopen"
  /\ Finish(c, CASE pidFile.kind = "none" -> "FileNotFoundError"
                 [] pidFile.kind = "garbage" -> "ValueError"
                 [] pidFile.kind = "int" -> "Running")
  /\ UNCHANGED <<pidFile, logFile, venv, proc, lastOp, phase, fn>>

\* The record is absent, empty, or holds a pid the program wrote.
InitConc ==
  /\ pidFile \in {NoFile, Garbage} \cup {IntRec(p) : p \in Pids}
  /\ logFile = NoLog
  /\ venv = FALSE
  /\ proc = [p \in Pids |-> "free"]
  /\ lastOp = NoOp
  /\ phase = "none"
  /\ fn = NoFn
  /\ call = [c \in Callers |-> Idle("none", "none")]

Probe(c) == ProbeExists(c) \/ ProbeRead(c) \/ ProbeKill(c) \/ ProbeUnlink(c)

StartSteps(c) == (\E p \in Pids : Spawn(c, p)) \/ OpenPid(c) \/ WritePid(c)

StopSteps(c) ==
  StopExists(c) \/ StopRead(c) \/ StopCorruptUnlink(c) \/ StopKill(c) \/ StopFinally(c)

NextConc ==
  \/ \E c \in Callers, op \in {"start", "stop", "status"} : Begin(c, op)
  \/ \E c \in Callers : Probe(c)
  \/ \E c \in Callers : StartSteps(c)
  \/ \E c \in Callers : StopSteps(c)
  \/ \E c \in Callers : StatusReopen(c)
  \/ \E p \in Pids : ServerExit(p)

SpecConc == InitConc /\ [][NextConc]_vars

\* ----------------------------------------------------------------- claims
\* The step is a command (start, stop or status), not a step of the
\* environment.
IsCall == lastOp'.seq # lastOp.seq

\* The record names a live server this supervisor launched.
LiveRecord ==
  pidFile.kind = "int" /\ pidFile.val \in Pids /\ Alive(proc[pidFile.val])

\* The record names a pid that no process holds.
StaleRecord ==
  pidFile.kind = "int" /\ pidFile.val \in Pids /\ proc[pidFile.val] = "free"

IsPrefix(a, b) == Len(a) <= Len(b) /\ SubSeq(b, 1, Len(a)) = a

Launches(o) == IF o.spawned # 0 THEN 1 ELSE 0

\* C1: once a stop has been called after a background start that launched the
\* server and wrote the record, and until the next start, no record exists and
\* every status reports Stopped.
C1_RoundTrip ==
  phase = "stopped" =>
    /\ pidFile = NoFile
    /\ lastOp.op = "status" => lastOp.out = "Stopped"

C1_Witness ==
  phase = "stopped" /\ lastOp.op = "status" /\ lastOp.out = "Stopped"

\* C2 as stated: whenever a background start directly follows a background
\* start that succeeded, setup and launch each happen at most once over the two
\* calls, and the second call launches nothing, leaves the record unchanged and
\* reports the status.
C2_Original ==
  [][(IsCall /\ StartBg(lastOp) /\ lastOp.exit = 0 /\ StartBg(lastOp')) =>
       /\ lastOp.setup + lastOp'.setup <= 1
       /\ Launches(lastOp) + Launches(lastOp') <= 1
       /\ lastOp'.spawned = 0
       /\ pidFile' = pidFile
       /\ lastOp'.out = "AlreadyRunning"]_vars

\* C2 amended: a background start that directly follows a background start
\* and finds the record naming a live server runs no setup and launches
\* nothing, leaves the record, the processes and the log unchanged and reports
\* the status; setup and launch each happen at most once over the two calls.
C2_Idempotent ==
  [][(IsCall /\ StartBg(lastOp) /\ StartBg(lastOp') /\ LiveRecord) =>
       /\ lastOp.setup + lastOp'.setup <= 1
       /\ Launches(lastOp) + Launches(lastOp') <= 1
       /\ lastOp'.setup = 0
       /\ lastOp'.spawned = 0
       /\ pidFile' = pidFile
       /\ proc' = proc
       /\ logFile' = logFile
       /\ lastOp'.out = "AlreadyRunning"]_vars

C2_Witness ==
  /\ StartBg(lastOp) /\ lastOp.prevBg
  /\ lastOp.out = "AlreadyRunning"
  /\ LiveRecord

\* C3: after a stop that found a record file, no record file remains.
C3_NoOrphan ==
  (lastOp.op = "stop" /\ lastOp.out # "NotRunning") => pidFile = NoFile

\* C4: a status that finds the record naming a pid no process holds reports
\* Stopped and leaves no record.
C4_StaleCleanup ==
  [][(IsCall /\ lastOp'.op = "status" /\ StaleRecord) =>
       /\ lastOp'.out = "Stopped"
       /\ lastOp'.exit = 0
       /\ pidFile' = NoFile]_vars

C4_Witness ==
  /\ lastOp.op = "status" /\ lastOp.out = "Stopped"
  /\ lastOp.caught = "ProcessLookupError"
  /\ pidFile = NoFile

\* C5: a status that finds no record naming a live supervised server reports
\* Stopped without raising and leaves no record.
C5_Uniform ==
  [][(IsCall /\ lastOp'.op = "status" /\ ~LiveRecord) =>
       /\ lastOp'.out = "Stopped"
       /\ pidFile' = NoFile]_vars

\* C6: a stop that finds a record that does not parse as an integer fails with
\* CorruptState, signals nothing and removes the record.
C6_Corrupt ==
  [][(IsCall /\ lastOp'.op = "stop" /\ pidFile = Garbage) =>
       /\ lastOp'.exit # 0
       /\ lastOp'.out = "CorruptState"
       /\ lastOp'.sig = "none"
       /\ proc' = proc
       /\ pidFile' = NoFile]_vars

C6_Witness ==
  lastOp.op = "stop" /\ lastOp.out = "CorruptState" /\ pidFile = NoFile

\* C7: a start with both --foreground and --auto exits 1 with InvalidArguments
\* and changes nothing: no setup, no launch, the record, the log, the
\* environment directory and the processes as they were.
C7_InvalidArguments ==
  [][(IsCall /\ lastOp'.op = "start" /\ lastOp'.foreground /\ lastOp'.auto) =>
       /\ lastOp'.exit = 1
       /\ lastOp'.out = "InvalidArguments"
       /\ lastOp'.setup = 0
       /\ lastOp'.spawned = 0
       /\ lastOp'.caught = "none"
       /\ UNCHANGED <<pidFile, logFile, venv, proc>>]_vars

\* The call was made on a stale record, which is still there.
C7_Witness ==
  /\ lastOp.op = "start" /\ lastOp.foreground /\ lastOp.auto
  /\ lastOp.out = "InvalidArguments"
  /\ pidFile = Garbage \/ StaleRecord

\* C8: a start that fails in the environment setup, or in the launch before a
\* server was spawned, exits non-zero and leaves no record; with a setup
\* failure, nothing was launched and the log was not opened.
C8_FailedStart ==
  [][(IsCall /\ lastOp'.op = "start"
        /\ \/ lastOp'.out = "EnvironmentSetupFailed"
           \/ lastOp'.out = "LaunchFailed" /\ lastOp'.spawned = 0) =>
       /\ lastOp'.exit # 0
       /\ pidFile' = NoFile
       /\ lastOp'.out = "EnvironmentSetupFailed" =>
            lastOp'.spawned = 0 /\ proc' = proc /\ logFile' = logFile]_vars

\* A launch that failed before the spawn, after the probe had cleaned a stale
\* record up.
C8_Witness ==
  /\ lastOp.op = "start" /\ lastOp.exit = 1 /\ lastOp.spawned = 0
  /\ lastOp.out = "LaunchFailed"
  /\ lastOp.caught # "none"
  /\ pidFile = NoFile

\* C9: when the server a start spawned has exited, that start did not report
\* success and the record does not name the exited process.
C9_EarlyExitSurfaced ==
  \A p \in Pids :
    (lastOp.op = "start" /\ lastOp.spawned = p /\ proc[p] = "free") =>
      lastOp.exit # 0 /\ pidFile # IntRec(p)

C11_AutoSkipsSupervision ==
  [][(IsCall /\ lastOp'.op = "start" /\ lastOp'.auto /\ ~lastOp'.foreground
        /\ LiveRecord) =>
       /\ lastOp'.setup = 0
       /\ lastOp'.spawned = 0
       /\ lastOp'.caught = "none"
       /\ lastOp'.out \in ClientOuts
       /\ UNCHANGED <<pidFile, logFile, venv, proc>>]_vars

C11_Witness ==
  /\ lastOp.op = "start" /\ lastOp.auto /\ lastOp.spawned = 0
  /\ lastOp.out = "ClientExited"
  /\ LiveRecord

\* C12: whatever the outcome of the client launch, the call signals nothing,
\* the server the call found or launched is as it was, the record names it,
\* and a status on the state the call leaves reports Running.
C12_ClientLeavesServer ==
  [][(IsCall /\ lastOp'.op = "start" /\ lastOp'.auto
        /\ lastOp'.out \in ClientOuts) =>
       /\ lastOp'.sig = "none"
       /\ IF lastOp'.spawned = 0
            THEN pidFile' = pidFile /\ proc' = proc
            ELSE /\ pidFile' = IntRec(lastOp'.spawned)
                 /\ proc' = [proc EXCEPT ![lastOp'.spawned] = "server"]
       /\ status(pidFile', proc').out = "Running"
       /\ status(pidFile', proc').file = pidFile']_vars

\* C13: a foreground start never writes a record. While its server runs no
\* record names it, so Status does not report it as Running; a foreground
\* start step, and the return of one, at most deletes a stale record; the
\* user's interrupt makes the start return normally.
C13_ForegroundUnrecorded ==
  /\ [](\A p \in Pids : proc[p] = "fg" => pidFile # IntRec(p))
  /\ [](lastOp.out \in {"ForegroundExited", "ForegroundInterrupted"} => lastOp.exit = 0)
  /\ [][(IsCall /\ lastOp'.op = "start" /\ lastOp'.foreground) =>
          pidFile' \in {pidFile, NoFile}]_vars

\* A foreground start has returned on the user's interrupt while another
\* foreground server still runs, and Status does not report Running.
C13_Witness ==
  /\ lastOp.out = "ForegroundInterrupted"
  /\ \E p \in Pids : proc[p] = "fg"
  /\ status(pidFile, proc).out # "Running"

\* The live servers of this supervisor that the record names or that were
\* signalled to shut down. A server left behind unrecorded by a failed launch
\* (C19) is not counted.
TrackedOrStopping ==
  {p \in Pids : proc[p] = "dying" \/ (proc[p] = "server" /\ pidFile = IntRec(p))}

\* C17: under sequential use at most one server launched by the supervisor
\* is alive at any time, a server that is slow to exit after the termination
\* signal included.
C17_SingleInstance == Cardinality(TrackedOrStopping) <= 1

\* C18: Stop signals nothing but a server this supervisor launched and
\* recorded, whatever the record holds (a value <= 0, or a pid that now
\* belongs to another process).
C18_StopSignalsOwnServer ==
  lastOp.op = "stop" => lastOp.sig \in {"none", "server"}

\* C19: a background start that reports a failed launch leaves no server
\* alive that was not alive before the call.
C19_FailedLaunchLeavesNothing ==
  [][(IsCall /\ lastOp'.op = "start" /\ lastOp'.out = "LaunchFailed") =>
       \A p \in Pids : Alive(proc'[p]) => Alive(proc[p])]_vars

\* The alias holds the marker m at some position, whatever the case of its
\* letters.
HasMarker(m, a) ==
  \E i \in 1..Len(a) :
    /\ i + Len(m) - 1 <= Len(a)
    /\ \A k \in 1..Len(m) : lower_char(a[i + k - 1]) = m[k]

\* The reference of alias resolution: the small-model marker first, then the
\* big-model marker, else the alias itself; the prefix from the preferred
\* provider alone.
resolve(a, env) ==
  LET prefix == IF PREFERRED_PROVIDER(env) = google THEN <<"gemini", "/">>
                                                    ELSE <<"openai", "/">>
  IN IF HasMarker(haiku, a) THEN prefix \o SMALL_MODEL(env)
     ELSE IF HasMarker(sonnet, a) THEN prefix \o BIG_MODEL(env)
     ELSE a

\* C15: alias resolution is total and equals its reference for every alias
\* and every value of the settings: the small-model marker is tested first
\* and without regard to case, then the big-model marker, else the alias is
\* returned unchanged; the prefix depends on the preferred provider alone.
C15_AliasResolution ==
  (fn.name = "get_mapped_model" /\ fn.done) => fn.out = resolve(fn.alias, fn.env)

\* An alias that holds both markers, one in mixed case, resolved to the small
\* model under the secondary provider written in capitals.
C15_Witness ==
  /\ fn.name = "get_mapped_model" /\ fn.done
  /\ fn.alias = <<"s", "o", "n", "n", "e", "t", "H", "a", "i", "k", "u">>
  /\ fn.env.PREFERRED_PROVIDER = {<<"G", "O", "O", "G", "L", "E">>}
  /\ fn.env.SMALL_MODEL = {}
  /\ fn.out = <<"gemini", "/", "gpt-4.1-mini">>

\* C16: a settings line KEY=VALUE whose key holds the credential marker and
\* whose value is longer than 8 characters is displayed as the key, "=", the
\* first 4 characters of the value, an ellipsis and its last 4 characters;
\* every other entry and every line without "=" is displayed as it is (less
\* the surrounding white space); the read never fails. Blank lines and
\* comments are not entries and are left out of the statement.
C16_DisplayMasking ==
  (fn.name = "display_line" /\ fn.done) =>
    LET line == strip(fn.line)
        key == split_key(line)
        value == split_value(line)
    IN /\ ~fn.out.raised
       /\ (line # <<>> /\ Head(line) # "#") =>
            /\ fn.out.shown
            /\ fn.out.text =
                 IF find_eq(line) # 0 /\ Contains(<<"API_KEY">>, key) /\ Len(value) > 8
                   THEN key \o <<"=">> \o SubSeq(value, 1, 4) \o <<".", ".", ".">>
                            \o SubSeq(value, Len(value) - 3, Len(value))
                   ELSE line

\* A live server that neither the record names nor any running command
\* holds the pid of.
Orphan(p) ==
  /\ proc[p] = "server"
  /\ pidFile # IntRec(p)
  /\ \A c \in Callers : call[c].pid # p /\ call[c].spawned # p

\* C14: two concurrent background starts can leave two live servers with the
\* record naming only the one written last (the witness); from then on the
\* overwritten server stays out of the record and out of every command's
\* hands, so no later stop signals it and no later status reports it, until
\* it exits by itself.
C14_OverwrittenUnreachable ==
  [][\A p \in Pids : Orphan(p) => (Orphan(p)' \/ proc'[p] = "free")]_vars

\* Both callers have returned from a start that launched a server; both
\* servers are alive, the record names one and the other is out of reach.
C14_Witness ==
  /\ \A c \in Callers : call[c].op = "start" /\ call[c].pc = "idle" /\ call[c].out = "Started"
  /\ \E p \in Pids, q \in Pids :
       /\ p # q
       /\ proc[p] = "server" /\ proc[q] = "server"
       /\ pidFile = IntRec(q)
       /\ Orphan(p)

\* C20: with two commands that may delete the record running at once, none
\* ends with an unhandled error because the other removed the record between
\* its existence check or read and its own delete.
C20_DeletionSafe ==
  (\A c \in Callers : call[c].op \in {"none", "stop", "status"}) =>
    \A c \in Callers : call[c].out # "FileNotFoundError"

==============================================================================
